---- MODULE Spec2Model ----
(***************************************************************************)
(* Flashcard reader of books/book_reader_base.js: the spaced-repetition    *)
(* scheduler (getWordsToReview, answerWord), the session cursor            *)
(* (showNextWord, answerWord, showWordComplete) and the per-book progress  *)
(* record kept in localStorage (loadProgress, saveProgress), with the      *)
(* sentence reader (playSentence, updateReadProgress) and the book manager *)
(* (saveBook, getAllBooks, getBook, deleteBook, bookExists) that share     *)
(* that storage.                                                           *)
(***************************************************************************)
EXTENDS Integers, Sequences, FiniteSets, TLC

(* ---------------- program constants (epoch milliseconds) ---------------- *)
\* 60 * 60 * 1000, the "1 hour" of answerWord
HOUR == 3600000
\* 2 * 24 * 60 * 60 * 1000, the "2 days" of answerWord
TWO_DAYS == 172800000
\* 7 * 24 * 60 * 60 * 1000, the "1 week" of answerWord
WEEK == 604800000
\* wordProgress.correctCount >= 3
MASTERY == 3

(* ---------------- bounds of the model ---------------- *)
\* a correct answer is taken only while correctCount < MaxCount
MaxCount == 4
\* an answer is taken only while currentWord < MaxCursor
MaxCursor == 2

\* Date.now() at the first page load
StartTime == 1000
\* the values Date.now() takes, in order: two instants a second apart, then
\* the millisecond before and the millisecond of the review that a word
\* mastered at the second instant is scheduled for, and one hour after that
Instants == <<StartTime, StartTime + 1000,
              StartTime + 1000 + WEEK - 1, StartTime + 1000 + WEEK,
              StartTime + 1000 + WEEK + HOUR>>

\* bookData.vocabulary: the words of the book, in the book's order
BookVocabulary == <<"cat", "dog">>
Words == {BookVocabulary[i] : i \in 1..Len(BookVocabulary)}

\* bookData.story: the sentences of the book, in order (indices 0..Len - 1)
Story == <<"s0", "s1">>
SentenceIndices == 0..(Len(Story) - 1)

\* bookData.id of the book this reader shows, and the id of another book
ThisBook == "book1"
OtherBook == "book2"
BookIds == {ThisBook, OtherBook}

\* JavaScript's undefined (currentWordData before a card was ever selected)
Undefined == "undefined"
\* this.progress when loadProgress threw before assigning it (held as a record
\* without the fields of a progress)
Unassigned == [unassigned |-> TRUE]
\* localStorage.getItem returning null: no record under book_progress_<id>;
\* a saved record p is held as <<p>>
NoItem == <<>>
\* a value under book_progress_<id> that JSON.parse rejects (held, like a
\* saved record, as a one-element tuple; text is what getItem returns)
Unparseable == <<[text |-> "{"]>>
\* the tabs whose selection refreshes content (switchTab)
Tabs == {"words", "review"}
\* this.isPlaying is false (while it is true, playing is <<index>>)
NotPlaying == <<>>

VARIABLES
  clock,            \* index into Instants of the present instant
  storageFull,      \* localStorage accepts no write: setItem throws QuotaExceededError
  buttonsInCard,    \* #know-btn and #study-btn are children of .flashcard-container
                    \* (the page's markup): showWordComplete removes them
  stored,           \* localStorage["book_progress_" + bookData.id]
  progress,         \* this.progress
  currentWord,      \* this.currentWord
  currentWordData,  \* this.currentWordData (the item's word, or Undefined)
  complete,         \* .flashcard-container was replaced by showWordComplete
  reviewList,       \* contents of #review-words-list
  thrown,           \* exception that left the last handler, or "none"
  answers,          \* answers recorded since a card was last selected by showNextWord,
                    \* counted up to the size of the vocabulary
  hist,             \* per word of this.progress: its answers since the entry was created
  storedHist,       \* hist as of the record in localStorage
  started,          \* the constructor returned: the handlers are attached
  playing,          \* <<this.currentSentence>> while this.isPlaying, else NotPlaying
  bookList,         \* localStorage["yul_english_books"]: NoItem, or <<ids of the books>>
  storedOther,      \* localStorage["book_progress_" + OtherBook]
  sessionDue,       \* the due-set showNextWord last selected a card from
  answeredWords     \* the words answered since then

vars == <<clock, storageFull, buttonsInCard, stored, progress, currentWord,
          currentWordData, complete, reviewList, thrown, answers, hist, storedHist,
          started, playing, bookList, storedOther, sessionDue, answeredWords>>

\* the storage of the book manager
library == <<bookList, storedOther>>

(* ---------------- helpers ---------------- *)
\* Date.now()
now == Instants[clock]

EmptyMap == [w \in {} |-> 0]
Put(m, k, v) == [x \in (DOMAIN m) \cup {k} |-> IF x = k THEN v ELSE m[x]]

\* the default of loadProgress
DefaultProgress == [lastReadSentence |-> -1, vocabulary |-> EmptyMap]

\* x || 0 on a number
OrZero(x) == IF x = 0 THEN 0 ELSE x

(* ---------------- the scheduler ---------------- *)
\* this.progress.vocabulary[word.word] || { learned: false, nextReview: now, correctCount: 0 }
WordProgressOrDefault(vocabulary, word, t) ==
  IF word \in DOMAIN vocabulary
    THEN vocabulary[word]
    ELSE [learned |-> FALSE, nextReview |-> t, correctCount |-> 0]

\* NeedsReview with the review time compared strictly
NeedsReviewStrict(vocabulary, word, t) ==
  LET wordProgress == WordProgressOrDefault(vocabulary, word, t)
  IN  (~wordProgress.learned) \/ wordProgress.nextReview < t

\* the filter predicate of getWordsToReview
NeedsReview(vocabulary, word, t) ==
  LET wordProgress == WordProgressOrDefault(vocabulary, word, t)
  IN  (~wordProgress.learned) \/ wordProgress.nextReview <= t

\* Array.prototype.filter: the kept items, in the order of the list
getWordsToReview(list, vocabulary, t) ==
  SelectSeq(list, LAMBDA word : NeedsReview(vocabulary, word, t))

\* the entry answerWord creates for a word that has none
NewWordProgress(t) ==
  [learned |-> FALSE, correctCount |-> 0, lastReview |-> t, nextReview |-> t]

\* recordAnswer with the threshold compared strictly (correctCount > 3)
recordAnswerLateMastery(wordProgress, knew, t) ==
  LET counted == IF knew
                   THEN [wordProgress EXCEPT !.correctCount = @ + 1]
                   ELSE [wordProgress EXCEPT !.correctCount = 0]
      scheduled == IF knew
                     THEN IF counted.correctCount > MASTERY
                            THEN [counted EXCEPT !.learned = TRUE, !.nextReview = t + WEEK]
                            ELSE [counted EXCEPT !.nextReview = t + TWO_DAYS]
                     ELSE [counted EXCEPT !.nextReview = t + HOUR]
  IN  [scheduled EXCEPT !.lastReview = t]

\* recordAnswer with an incorrect answer keeping the count of a learned word
recordAnswerKeepCount(wordProgress, knew, t) ==
  LET counted == IF knew
                   THEN [wordProgress EXCEPT !.correctCount = @ + 1]
                   ELSE IF wordProgress.learned
                          THEN wordProgress
                          ELSE [wordProgress EXCEPT !.correctCount = 0]
      scheduled == IF knew
                     THEN IF counted.correctCount >= MASTERY
                            THEN [counted EXCEPT !.learned = TRUE, !.nextReview = t + WEEK]
                            ELSE [counted EXCEPT !.nextReview = t + TWO_DAYS]
                     ELSE [counted EXCEPT !.nextReview = t + HOUR]
  IN  [scheduled EXCEPT !.lastReview = t]

\* recordAnswer with an incorrect answer also taking the mastery back
recordAnswerUnlearn(wordProgress, knew, t) ==
  LET counted == IF knew
                   THEN [wordProgress EXCEPT !.correctCount = @ + 1]
                   ELSE [wordProgress EXCEPT !.correctCount = 0, !.learned = FALSE]
      scheduled == IF knew
                     THEN IF counted.correctCount >= MASTERY
                            THEN [counted EXCEPT !.learned = TRUE, !.nextReview = t + WEEK]
                            ELSE [counted EXCEPT !.nextReview = t + TWO_DAYS]
                     ELSE [counted EXCEPT !.nextReview = t + HOUR]
  IN  [scheduled EXCEPT !.lastReview = t]

\* recordAnswer with a correct answer leaving a learned word as it is
recordAnswerFrozen(wordProgress, knew, t) ==
  LET counted == IF knew
                   THEN [wordProgress EXCEPT !.correctCount = @ + 1]
                   ELSE [wordProgress EXCEPT !.correctCount = 0]
      scheduled == IF knew
                     THEN IF counted.correctCount >= MASTERY
                            THEN [counted EXCEPT !.learned = TRUE, !.nextReview = t + WEEK]
                            ELSE [counted EXCEPT !.nextReview = t + TWO_DAYS]
                     ELSE [counted EXCEPT !.nextReview = t + HOUR]
  IN  IF knew /\ wordProgress.learned
        THEN wordProgress
        ELSE [scheduled EXCEPT !.lastReview = t]

\* recordAnswer without the final lastReview = now
recordAnswerStaleReview(wordProgress, knew, t) ==
  LET counted == IF knew
                   THEN [wordProgress EXCEPT !.correctCount = @ + 1]
                   ELSE [wordProgress EXCEPT !.correctCount = 0]
  IN  IF knew
        THEN IF counted.correctCount >= MASTERY
               THEN [counted EXCEPT !.learned = TRUE, !.nextReview = t + WEEK]
               ELSE [counted EXCEPT !.nextReview = t + TWO_DAYS]
        ELSE [counted EXCEPT !.nextReview = t + HOUR]

\* the transition of answerWord on one entry
recordAnswer(wordProgress, knew, t) ==
  LET counted == IF knew
                   THEN [wordProgress EXCEPT !.correctCount = @ + 1]
                   ELSE [wordProgress EXCEPT !.correctCount = 0]
      scheduled == IF knew
                     THEN IF counted.correctCount >= MASTERY
                            THEN [counted EXCEPT !.learned = TRUE, !.nextReview = t + WEEK]
                            ELSE [counted EXCEPT !.nextReview = t + TWO_DAYS]
                     ELSE [counted EXCEPT !.nextReview = t + HOUR]
  IN  [scheduled EXCEPT !.lastReview = t]

\* this.progress.vocabulary after the update of answerWord
AnsweredVocabulary(vocabulary, word, knew, t) ==
  LET entry == IF word \in DOMAIN vocabulary THEN vocabulary[word] ELSE NewWordProgress(t)
  IN  Put(vocabulary, word, recordAnswer(entry, knew, t))

\* updateReadProgress recording the sentence read last, not the highest
updateReadProgressLast(p, maxIndex) ==
  [p EXCEPT !.lastReadSentence = maxIndex]

\* updateReadProgress: the highest sentence read
updateReadProgress(p, maxIndex) ==
  IF maxIndex >= OrZero(p.lastReadSentence)
    THEN [p EXCEPT !.lastReadSentence = maxIndex]
    ELSE p

\* updateProgress
updateProgress(p) == updateReadProgress(p, OrZero(p.lastReadSentence))

\* JSON.parse(saved) returns
Parses(item) == item /= Unparseable

\* loadProgress: the saved record, or the default
loadProgress(item) == IF item /= NoItem THEN item[1] ELSE DefaultProgress

(* ---------------- history of the answers (history variables) ---------------- *)
\* run: correct answers in a row since the last incorrect one (or since creation)
\* wrong: some answer since creation was incorrect;  at: time of the last answer
\* mastered: run has at some point reached 3
AnsweredHist(h, vocabulary, word, knew, t) ==
  LET old == IF word \in DOMAIN vocabulary /\ word \in DOMAIN h
               THEN h[word]
               ELSE [run |-> 0, wrong |-> FALSE, at |-> t, mastered |-> FALSE]
  IN  Put(h, word, [run |-> IF knew THEN old.run + 1 ELSE 0,
                    wrong |-> old.wrong \/ ~knew,
                    at |-> t,
                    mastered |-> old.mastered \/ (knew /\ old.run + 1 >= 3)])

(* ---------------- the handlers ---------------- *)
\* showNextWord: the cursor after it, as <<currentWord, currentWordData, complete>>
showNextWord(vocabulary, t, cw, cwd, done) ==
  LET wordsToReview == getWordsToReview(BookVocabulary, vocabulary, t)
  IN  IF Len(wordsToReview) = 0
        THEN <<cw, cwd, TRUE>>
        ELSE <<0, wordsToReview[1], done>>

\* MoveToNextWord taking the item at the index before the increment: the
\* counter advances and the card stays
MoveToNextWordSameCard(vocabulary, t, cw, cwd, done) ==
  LET wordsToReview == getWordsToReview(BookVocabulary, vocabulary, t)
      next == cw + 1
  IN  IF next < Len(wordsToReview)
        THEN <<next, wordsToReview[next], done>>
        ELSE <<next, cwd, TRUE>>

\* "Move to next word" of answerWord: the cursor after it
MoveToNextWord(vocabulary, t, cw, cwd, done) ==
  LET wordsToReview == getWordsToReview(BookVocabulary, vocabulary, t)
      next == cw + 1
  IN  IF next < Len(wordsToReview)
        THEN <<next, wordsToReview[next + 1], done>>
        ELSE <<next, cwd, TRUE>>

\* the counter renderFlashcard writes into #card-counter, as
\* <<currentWord + 1, wordsToReview.length>>
cardCounter(vocabulary, t, cw) ==
  <<cw + 1, Len(getWordsToReview(BookVocabulary, vocabulary, t))>>

\* saveProgress writing the vocabulary only
saveProgressVocabularyOnly(p) == <<[p EXCEPT !.lastReadSentence = -1]>>

\* saveProgress: the item written by localStorage.setItem
saveProgress(p) == <<p>>

\* new BookReader(bookData): a page load (also location.reload())
LoadPage ==
  /\ IF stored /= NoItem /\ ~Parses(stored)
       THEN \* JSON.parse throws in loadProgress, before init(): no handler is attached
            /\ started' = FALSE
            /\ thrown' = "SyntaxError"
            /\ progress' = Unassigned
            /\ hist' = EmptyMap
            /\ currentWord' = 0
            /\ currentWordData' = Undefined
            /\ complete' = FALSE
            /\ reviewList' = <<>>
            /\ sessionDue' = <<>>
       ELSE LET loaded == loadProgress(stored)
                cursor == showNextWord(loaded.vocabulary, now, 0, Undefined, FALSE)
            IN  /\ started' = TRUE
                /\ progress' = updateProgress(loaded)
                /\ hist' = storedHist
                /\ currentWord' = cursor[1]
                /\ currentWordData' = cursor[2]
                /\ complete' = cursor[3]
                /\ reviewList' = getWordsToReview(BookVocabulary, loaded.vocabulary, now)
                /\ sessionDue' = getWordsToReview(BookVocabulary, loaded.vocabulary, now)
                /\ thrown' = "none"
  /\ answers' = 0
  /\ answeredWords' = {}
  /\ playing' = NotPlaying
  /\ UNCHANGED <<clock, storageFull, buttonsInCard, stored, storedHist, library>>

\* switchTab with a getWordsToReview that stores the default entry of a word
\* that has none (progress.vocabulary[word] ||= default)
switchTabStoringDefaults(tab) ==
  /\ started
  /\ thrown' = "none"
  /\ IF tab = "words"
       THEN LET cursor == showNextWord(progress.vocabulary, now, currentWord,
                                       currentWordData, complete)
                due == getWordsToReview(BookVocabulary, progress.vocabulary, now)
            IN  /\ currentWord' = cursor[1]
                /\ currentWordData' = cursor[2]
                /\ complete' = cursor[3]
                /\ answers' = IF getWordsToReview(BookVocabulary, progress.vocabulary, now)
                                     /= <<>>
                                THEN 0 ELSE answers
                /\ sessionDue' = IF due /= <<>> THEN due ELSE sessionDue
                /\ answeredWords' = IF due /= <<>> THEN {} ELSE answeredWords
       ELSE UNCHANGED <<currentWord, currentWordData, complete, answers,
                        sessionDue, answeredWords>>
  /\ IF tab = "review"
       THEN reviewList' = getWordsToReview(BookVocabulary, progress.vocabulary, now)
       ELSE UNCHANGED reviewList
  /\ progress' = [progress EXCEPT !.vocabulary =
                    [w \in Words |-> IF w \in DOMAIN progress.vocabulary
                                       THEN progress.vocabulary[w]
                                       ELSE NewWordProgress(now)]]
  /\ UNCHANGED <<clock, storageFull, buttonsInCard, stored, hist, storedHist,
                 started, playing, library>>

\* switchTab(tab): the content refresh of a tab click (this.currentTab and the
\* classes of the tab buttons are display state nothing else reads)
switchTab(tab) ==
  /\ started
  /\ thrown' = "none"
  /\ IF tab = "words"
       THEN LET cursor == showNextWord(progress.vocabulary, now, currentWord,
                                       currentWordData, complete)
                due == getWordsToReview(BookVocabulary, progress.vocabulary, now)
            IN  /\ currentWord' = cursor[1]
                /\ currentWordData' = cursor[2]
                /\ complete' = cursor[3]
                /\ answers' = IF getWordsToReview(BookVocabulary, progress.vocabulary, now)
                                     /= <<>>
                                THEN 0 ELSE answers
                /\ sessionDue' = IF due /= <<>> THEN due ELSE sessionDue
                /\ answeredWords' = IF due /= <<>> THEN {} ELSE answeredWords
       ELSE UNCHANGED <<currentWord, currentWordData, complete, answers,
                        sessionDue, answeredWords>>
  /\ IF tab = "review"
       THEN reviewList' = getWordsToReview(BookVocabulary, progress.vocabulary, now)
       ELSE UNCHANGED reviewList
  /\ UNCHANGED <<clock, storageFull, buttonsInCard, stored, progress, hist, storedHist,
                 started, playing, library>>

\* the click handlers of setupWordMode can still fire: showWordComplete replaces
\* the innerHTML of .flashcard-container, and with it the buttons inside it
AnswerButtonsPresent == ~(complete /\ buttonsInCard)

\* answerWord(knew)
answerWord(knew) ==
  /\ started
  /\ AnswerButtonsPresent
  /\ currentWord < MaxCursor
  /\ IF currentWordData = Undefined
       THEN \* this.currentWordData.word throws
            /\ thrown' = "TypeError"
            /\ UNCHANGED <<progress, hist, stored, storedHist, currentWord,
                           currentWordData, complete, answers, answeredWords>>
       ELSE LET word == currentWordData
                vocabulary == AnsweredVocabulary(progress.vocabulary, word, knew, now)
                answered == [progress EXCEPT !.vocabulary = vocabulary]
                cursor == MoveToNextWord(vocabulary, now, currentWord,
                                         currentWordData, complete)
            IN  /\ knew => WordProgressOrDefault(progress.vocabulary, word, now).correctCount
                             < MaxCount
                /\ progress' = answered
                /\ hist' = AnsweredHist(hist, progress.vocabulary, word, knew, now)
                /\ answers' = IF answers < Len(BookVocabulary) THEN answers + 1 ELSE answers
                /\ answeredWords' = answeredWords \cup {word}
                /\ IF ~storageFull
                     THEN /\ stored' = saveProgress(answered)
                          /\ storedHist' = hist'
                          /\ thrown' = "none"
                          /\ currentWord' = cursor[1]
                          /\ currentWordData' = cursor[2]
                          /\ complete' = cursor[3]
                     ELSE \* saveProgress throws: the rest of the handler is skipped
                          /\ thrown' = "QuotaExceededError"
                          /\ UNCHANGED <<stored, storedHist, currentWord,
                                         currentWordData, complete>>
  /\ UNCHANGED <<clock, storageFull, buttonsInCard, reviewList, started, playing,
                 library, sessionDue>>

(* ---------------- the sentence reader ---------------- *)
\* playSentence(index) up to "await this.speakText(sentence.en)"; a click while
\* a sentence is playing returns at once
playSentence(index) ==
  /\ started
  /\ playing = NotPlaying
  /\ playing' = <<index>>
  /\ UNCHANGED <<clock, storageFull, buttonsInCard, stored, progress, currentWord,
                 currentWordData, complete, reviewList, thrown, answers, hist,
                 storedHist, started, library, sessionDue, answeredWords>>

\* the rest of playSentence, once speakText has settled (resolved or rejected):
\* isPlaying = false, updateReadProgress(index), saveProgress()
speakTextSettled ==
  /\ started
  /\ playing /= NotPlaying
  /\ playing' = NotPlaying
  /\ progress' = updateReadProgress(progress, playing[1])
  /\ IF ~storageFull
       THEN /\ stored' = saveProgress(progress')
            /\ storedHist' = hist
            /\ thrown' = "none"
       ELSE \* saveProgress throws: the promise of playSentence is rejected
            /\ thrown' = "QuotaExceededError"
            /\ UNCHANGED <<stored, storedHist>>
  /\ UNCHANGED <<clock, storageFull, buttonsInCard, currentWord, currentWordData,
                 complete, reviewList, answers, hist, started, library,
                 sessionDue, answeredWords>>

(* ---------------- the book manager ---------------- *)
\* books.some(b => b.id === id)
HasBook(books, id) == \E i \in 1..Len(books) : books[i] = id

\* getAllBooks: the stored list, or [] when there is none (a book is held as its id)
getAllBooks(item) == IF item = NoItem THEN <<>> ELSE item[1]

\* bookExists(bookId), which is getBook(bookId) !== null
bookExists(item, id) == HasBook(getAllBooks(item), id)

\* saveBook(bookData): replace the book with this id, or push it
saveBook(id) ==
  LET books == getAllBooks(bookList)
  IN  /\ ~storageFull
      /\ bookList' = <<IF HasBook(books, id) THEN books ELSE Append(books, id)>>
      /\ UNCHANGED <<clock, storageFull, buttonsInCard, stored, progress, currentWord,
                     currentWordData, complete, reviewList, thrown, answers, hist,
                     storedHist, started, playing, storedOther, sessionDue,
                     answeredWords>>

\* getBook(bookId) and bookExists(bookId): they read the list
getBook(id) ==
  /\ bookExists(bookList, id) \in BOOLEAN
  /\ UNCHANGED vars

\* deleteBook that leaves the progress record of the book in place
deleteBookKeepingProgress(id) ==
  LET books == getAllBooks(bookList)
      filteredBooks == SelectSeq(books, LAMBDA b : b /= id)
  IN  /\ IF Len(filteredBooks) = Len(books) \/ storageFull
           THEN UNCHANGED <<bookList, stored, storedHist, storedOther>>
           ELSE /\ bookList' = <<filteredBooks>>
                /\ UNCHANGED <<stored, storedHist, storedOther>>
      /\ UNCHANGED <<clock, storageFull, buttonsInCard, progress, currentWord,
                     currentWordData, complete, reviewList, thrown, answers, hist,
                     started, playing, sessionDue, answeredWords>>

\* deleteBook(bookId): false when no book has the id; else the list without it
\* is written and book_progress_<bookId> is removed (when setItem throws,
\* nothing is written or removed)
deleteBook(id) ==
  LET books == getAllBooks(bookList)
      filteredBooks == SelectSeq(books, LAMBDA b : b /= id)
  IN  /\ IF Len(filteredBooks) = Len(books) \/ storageFull
           THEN UNCHANGED <<bookList, stored, storedHist, storedOther>>
           ELSE /\ bookList' = <<filteredBooks>>
                /\ IF id = ThisBook
                     THEN /\ stored' = NoItem
                          /\ storedHist' = EmptyMap
                          /\ UNCHANGED storedOther
                     ELSE /\ storedOther' = NoItem
                          /\ UNCHANGED <<stored, storedHist>>
      /\ UNCHANGED <<clock, storageFull, buttonsInCard, progress, currentWord,
                     currentWordData, complete, reviewList, thrown, answers, hist,
                     started, playing, sessionDue, answeredWords>>

\* the value under book_progress_<id> is overwritten with text that is not JSON
\* (localStorage is shared by every script of the origin and editable by hand)
CorruptRecord ==
  /\ stored /= Unparseable
  /\ stored' = Unparseable
  /\ storedHist' = EmptyMap
  /\ UNCHANGED <<clock, storageFull, buttonsInCard, progress, currentWord,
                 currentWordData, complete, reviewList, thrown, answers, hist,
                 started, playing, library, sessionDue, answeredWords>>

\* the clock reaches the next instant
Tick ==
  /\ clock < Len(Instants)
  /\ clock' = clock + 1
  /\ UNCHANGED <<storageFull, buttonsInCard, stored, progress, currentWord, currentWordData,
                 complete, reviewList, thrown, answers, hist, storedHist,
                 started, playing, library, sessionDue, answeredWords>>

\* the state after new BookReader(bookData) at the first visit: nothing is
\* saved yet; localStorage either accepts writes or rejects every write; the
\* page's markup has the answer buttons inside the card container or outside
Init ==
  /\ clock = 1
  /\ storageFull \in BOOLEAN
  /\ buttonsInCard \in BOOLEAN
  /\ stored = NoItem
  /\ storedHist = EmptyMap
  /\ progress = updateProgress(DefaultProgress)
  /\ hist = EmptyMap
  /\ currentWord = 0
  /\ currentWordData = BookVocabulary[1]
  /\ complete = FALSE
  /\ reviewList = BookVocabulary
  /\ thrown = "none"
  /\ answers = 0
  /\ started = TRUE
  /\ playing = NotPlaying
  /\ bookList = <<<<ThisBook>>>>
  /\ storedOther = NoItem
  /\ sessionDue = BookVocabulary
  /\ answeredWords = {}

Next ==
  \/ LoadPage
  \/ \E tab \in Tabs : switchTab(tab)
  \/ \E knew \in BOOLEAN : answerWord(knew)
  \/ Tick

Spec == Init /\ [][Next]_vars

(* ---------------- the reader with the sentences and the book manager ---------------- *)
\* the first visit of a book that the book manager lists, next to another
\* book whose reader has saved a record
StoreInit ==
  /\ clock = 1
  /\ storageFull \in BOOLEAN
  /\ buttonsInCard \in BOOLEAN
  /\ stored = NoItem
  /\ storedHist = EmptyMap
  /\ progress = updateProgress(DefaultProgress)
  /\ hist = EmptyMap
  /\ currentWord = 0
  /\ currentWordData = BookVocabulary[1]
  /\ complete = FALSE
  /\ reviewList = BookVocabulary
  /\ thrown = "none"
  /\ answers = 0
  /\ started = TRUE
  /\ playing = NotPlaying
  /\ bookList = <<<<ThisBook, OtherBook>>>>
  /\ storedOther = <<DefaultProgress>>
  /\ sessionDue = BookVocabulary
  /\ answeredWords = {}

\* every handler of the reader and every function of the book manager, at the
\* first instant of the clock (the scheduling over time is the subject of Spec)
StoreNext ==
  \/ LoadPage
  \/ \E tab \in Tabs : switchTab(tab)
  \/ \E knew \in BOOLEAN : answerWord(knew)
  \/ \E index \in SentenceIndices : playSentence(index)
  \/ speakTextSettled
  \/ \E id \in BookIds : saveBook(id)
  \/ \E id \in BookIds : getBook(id)
  \/ \E id \in BookIds : deleteBook(id)
  \/ CorruptRecord

StoreSpec == StoreInit /\ [][StoreNext]_vars

(* ======================= the claims ======================= *)
HasEntry(w) == w \in DOMAIN progress.vocabulary
Entry(w) == progress.vocabulary[w]
\* the position of a word in the book's vocabulary
PosInBook(w) == CHOOSE i \in 1..Len(BookVocabulary) : BookVocabulary[i] = w
InSeq(w, list) == \E j \in 1..Len(list) : list[j] = w

\* the ghost history describes exactly the words that have an entry
HistTypeOK == DOMAIN hist = DOMAIN progress.vocabulary

C2_ThreeCorrectAnswersMaster ==
  \A w \in Words :
    (HasEntry(w) /\ w \in DOMAIN hist /\ ~hist[w].wrong) =>
      /\ hist[w].run = 3 =>
           /\ Entry(w).learned = TRUE
           /\ Entry(w).correctCount = 3
           /\ Entry(w).lastReview = hist[w].at
           /\ Entry(w).nextReview = hist[w].at + 604800000
      /\ hist[w].run \in {1, 2} => Entry(w).learned = FALSE

\* C2 witness: a word whose only answers are three correct ones, the last
\* later than the first instant
C2_Witness ==
  \E w \in Words :
    /\ HasEntry(w) /\ w \in DOMAIN hist
    /\ ~hist[w].wrong /\ hist[w].run = 3 /\ hist[w].at > StartTime
    /\ Entry(w).learned
    /\ ~storageFull /\ buttonsInCard

\* C3: whatever the entry was (or if there was none), an incorrect answer at
\* time now leaves correctCount = 0, lastReview = now, nextReview = now + 3600000
C3_IncorrectAnswerResets ==
  [][\A w \in Words :
       (answerWord(FALSE) /\ currentWordData = w) =>
          /\ progress'.vocabulary[w].correctCount = 0
          /\ progress'.vocabulary[w].lastReview = now
          /\ progress'.vocabulary[w].nextReview = now + 3600000]_vars

\* C3 witness: a word that had been answered correctly before, and a learned
\* word, each after an incorrect answer
C3_Witness ==
  \E w \in Words :
    /\ HasEntry(w) /\ w \in DOMAIN hist
    /\ hist[w].run = 0 /\ Entry(w).correctCount = 0
    /\ Entry(w).nextReview = hist[w].at + HOUR
    /\ Entry(w).learned
    /\ ~storageFull /\ buttonsInCard

\* C4: no answer, correct or incorrect, takes learned back: a word that is
\* learned before an answerWord call is learned after it
C4_MasteryMonotone ==
  [][(\E knew \in BOOLEAN : answerWord(knew)) =>
       \A w \in Words :
         (HasEntry(w) /\ Entry(w).learned) =>
           (w \in DOMAIN progress'.vocabulary /\ progress'.vocabulary[w].learned)]_vars

\* C4 witness: a learned word that was since answered incorrectly and then
\* correctly is still learned
C4_Witness ==
  \E w \in Words :
    /\ HasEntry(w) /\ w \in DOMAIN hist
    /\ Entry(w).learned /\ hist[w].wrong /\ hist[w].run >= 1
    /\ ~storageFull /\ buttonsInCard

\* the entry of w as answerWord sees it: the entry, or the one it creates
EntryOrNew(w) == IF HasEntry(w) THEN Entry(w) ELSE NewWordProgress(now)

\* C5 (as claimed): a correct answer on an already-learned word leaves the
\* word's progress fields unchanged
C5_LearnedFrozenOnCorrect ==
  [][\A w \in Words :
       (answerWord(TRUE) /\ currentWordData = w /\ ~storageFull /\ buttonsInCard
          /\ HasEntry(w) /\ Entry(w).learned) =>
          progress'.vocabulary[w] = Entry(w)]_vars

\* C5 (amended): a correct answer on an already-learned word keeps learned
\* true and changes the other fields: correctCount + 1, lastReview = now,
\* nextReview = now + 7 days (now + 2 days while correctCount is below 3)
C5_LearnedCorrectReschedules ==
  [][\A w \in Words :
       (answerWord(TRUE) /\ currentWordData = w /\ HasEntry(w) /\ Entry(w).learned) =>
          /\ progress'.vocabulary[w].learned = TRUE
          /\ progress'.vocabulary[w].correctCount = Entry(w).correctCount + 1
          /\ progress'.vocabulary[w].lastReview = now
          /\ progress'.vocabulary[w].nextReview =
               now + (IF Entry(w).correctCount + 1 >= 3 THEN 604800000 ELSE 172800000)]_vars

\* C5 witness: a learned word answered correctly again when its review came
\* due: the count passed 3 and the review moved a week on
C5_Witness ==
  \E w \in Words :
    /\ HasEntry(w) /\ Entry(w).learned /\ Entry(w).correctCount = 4
    /\ Entry(w).lastReview >= Instants[3]
    /\ Entry(w).nextReview = Entry(w).lastReview + WEEK
    /\ ~storageFull /\ buttonsInCard

\* C6 (as claimed): a correct answer that brings correctCount below 3 adds 1
\* to it, sets nextReview = now + 172800000 and lastReview = now, and leaves
\* learned false
C6_BelowThresholdLeavesUnlearned ==
  [][\A w \in Words :
       (answerWord(TRUE) /\ currentWordData = w /\ ~storageFull /\ buttonsInCard
          /\ EntryOrNew(w).correctCount + 1 < 3) =>
          /\ progress'.vocabulary[w].correctCount = EntryOrNew(w).correctCount + 1
          /\ progress'.vocabulary[w].nextReview = now + 172800000
          /\ progress'.vocabulary[w].lastReview = now
          /\ progress'.vocabulary[w].learned = FALSE]_vars

\* C6 (amended): a correct answer that brings correctCount below 3 adds 1 to
\* it, sets nextReview = now + 172800000 and lastReview = now, and leaves
\* learned as it was (false for a word never mastered, true for a word that
\* was mastered and then answered incorrectly); a word with no entry gets
\* {learned: false, correctCount: 1, lastReview: now, nextReview: now + 172800000}
C6_BelowThresholdKeepsLearned ==
  [][\A w \in Words :
       (answerWord(TRUE) /\ currentWordData = w /\ EntryOrNew(w).correctCount + 1 < 3) =>
          /\ progress'.vocabulary[w].correctCount = EntryOrNew(w).correctCount + 1
          /\ progress'.vocabulary[w].nextReview = now + 172800000
          /\ progress'.vocabulary[w].lastReview = now
          /\ progress'.vocabulary[w].learned = EntryOrNew(w).learned
          /\ ~HasEntry(w) =>
               progress'.vocabulary[w] =
                 [learned |-> FALSE, correctCount |-> 1, lastReview |-> now,
                  nextReview |-> now + 172800000]]_vars

\* C6 witness: a word answered correctly for the second time, later than the
\* first, and not yet learned
C6_Witness ==
  \E w \in Words :
    /\ HasEntry(w) /\ w \in DOMAIN hist
    /\ ~hist[w].wrong /\ hist[w].run = 2 /\ hist[w].at > StartTime
    /\ Entry(w).correctCount = 2 /\ ~Entry(w).learned
    /\ Entry(w).nextReview = Entry(w).lastReview + TWO_DAYS
    /\ ~storageFull /\ buttonsInCard

\* C7: an incorrect answer never changes learned: an unlearned (or new) word
\* stays unlearned, and a learned word stays learned with correctCount = 0 and
\* nextReview = now + 1 hour
C7_IncorrectKeepsLearned ==
  [][\A w \in Words :
       (answerWord(FALSE) /\ currentWordData = w) =>
          /\ progress'.vocabulary[w].learned = EntryOrNew(w).learned
          /\ EntryOrNew(w).learned =>
               /\ progress'.vocabulary[w].correctCount = 0
               /\ progress'.vocabulary[w].nextReview = now + HOUR]_vars

\* C7 witness: the mastered-but-due-soon state, reached by an incorrect answer
\* to a learned word whose review had come due
C7_Witness ==
  \E w \in Words :
    /\ HasEntry(w) /\ Entry(w).learned /\ Entry(w).correctCount = 0
    /\ Entry(w).lastReview >= Instants[3]
    /\ Entry(w).nextReview = Entry(w).lastReview + HOUR
    /\ ~storageFull /\ buttonsInCard

\* C8 (as claimed): a word that was answered is not in the due-set at any time
\* before its nextReview
C8_CooldownEnforced ==
  (~storageFull /\ buttonsInCard) =>
    \A w \in Words :
      (HasEntry(w) /\ now < Entry(w).nextReview) =>
        ~InSeq(w, getWordsToReview(BookVocabulary, progress.vocabulary, now))

\* C9 (as claimed): after as many answers as the vocabulary has words, counted
\* from the last card selection of showNextWord, the session is complete
C9_SessionCompletes ==
  answers >= Len(BookVocabulary) => complete

\* C10: a call of getWordsToReview (showNextWord on the words tab,
\* updateReviewStats on the review tab) leaves the progress map and the saved
\* record unchanged; on the review tab the cursor is unchanged too, and a
\* second call on the state the first one left returns the list it returned
C10_DueCheckPure ==
  [][\A tab \in Tabs :
       switchTab(tab) =>
         /\ progress' = progress
         /\ stored' = stored
         /\ tab = "review" =>
              /\ currentWord' = currentWord
              /\ currentWordData' = currentWordData
              /\ complete' = complete
              /\ reviewList' = getWordsToReview(BookVocabulary, progress'.vocabulary,
                                                Instants[clock'])]_vars

\* C10 witness: the review list as computed after some word left the due-set
C10_Witness ==
  /\ reviewList = getWordsToReview(BookVocabulary, progress.vocabulary, now)
  /\ Len(reviewList) < Len(BookVocabulary)
  /\ \E w \in Words : ~HasEntry(w)
  /\ thrown = "none"
  /\ ~storageFull /\ buttonsInCard

\* C11: every answerWord call and every playSentence call that runs to its end
\* leaves under book_progress_<id> exactly the in-memory progress: the same
\* lastReadSentence and the same vocabulary map
C11_StoreFollowsMemory ==
  [][(((\E knew \in BOOLEAN : answerWord(knew)) \/ speakTextSettled) /\ thrown' = "none") =>
       /\ stored' /= NoItem
       /\ stored'[1] = progress'
       /\ stored'[1].lastReadSentence = progress'.lastReadSentence
       /\ stored'[1].vocabulary = progress'.vocabulary]_vars

\* C11 witness: the saved record equals a progress that holds a sentence read
\* and an answered word
C11_Witness ==
  /\ started /\ thrown = "none" /\ ~storageFull
  /\ progress.lastReadSentence = Len(Story) - 1
  /\ progress.vocabulary /= EmptyMap
  /\ stored = <<progress>>

\* C12 (as claimed): loading never fails: with a missing or corrupt record the
\* constructor returns and the reader starts (with the default progress)
C12_LoadNeverFails ==
  started /\ thrown /= "SyntaxError"

\* C13 (as claimed): when saveProgress fails during answerWord, no exception
\* leaves the handler and the cursor still advances to the next word
C13_SaveFailureDoesNotStall ==
  [][\A knew \in BOOLEAN :
       (answerWord(knew) /\ storageFull /\ currentWordData /= Undefined) =>
          /\ thrown' = "none"
          /\ currentWord' = currentWord + 1]_vars

\* C14 (as claimed): no exception leaves getWordsToReview or answerWord in
\* any reachable state (storage accepting writes), also when the due-set was
\* empty at the page load and no card was ever selected
C14_NoExceptionEscapes ==
  ~storageFull => thrown = "none"

\* lastReadSentence of the record under book_progress_<id>, -1 when there is none
LastRead(item) == IF item = NoItem \/ ~Parses(item) THEN -1 ELSE item[1].lastReadSentence

\* C15: lastReadSentence is -1 for a book with no saved progress and never
\* decreases: the initialisation (updateProgress) keeps the loaded value, a
\* played sentence i leaves it at least i and at least what it was, whatever
\* the order of the indices, and the saved value never decreases either
C15_LastReadMonotone ==
  [][/\ speakTextSettled =>
          /\ progress'.lastReadSentence >= progress.lastReadSentence
          /\ progress'.lastReadSentence >= playing[1]
     /\ (LoadPage /\ started') =>
          /\ progress'.lastReadSentence >= LastRead(stored)
          /\ stored = NoItem => progress'.lastReadSentence = -1
     /\ ((LoadPage \/ speakTextSettled \/ \E knew \in BOOLEAN : answerWord(knew))
           /\ Parses(stored) /\ Parses(stored')) =>
          LastRead(stored') >= LastRead(stored)]_vars

\* C15 witness: the last sentence was read and saved, and an earlier sentence
\* is playing
C15_Witness ==
  /\ started /\ ~storageFull
  /\ progress.lastReadSentence = Len(Story) - 1
  /\ stored = <<progress>>
  /\ playing = <<0>>

\* C16 (as claimed): once the completion screen is shown, no tab switch and no
\* answer changes the progress or selects a card before the page is reloaded
C16_CompletionTerminal ==
  [][(complete /\ ~storageFull /\ buttonsInCard
        /\ ((\E tab \in Tabs : switchTab(tab)) \/ (\E knew \in BOOLEAN : answerWord(knew)))) =>
       UNCHANGED <<progress, currentWord, currentWordData>>]_vars

\* C17: deleteBook(id) on a listed id leaves the list without the id and no
\* record book_progress_<id>, the other record untouched; on an id that is not
\* listed it changes neither the list nor a record; saveBook, getBook,
\* getAllBooks and bookExists never change a progress record
C17_DeletePurgesProgress ==
  [][/\ \A id \in BookIds :
          deleteBook(id) =>
            IF bookExists(bookList, id) /\ ~storageFull
              THEN /\ ~bookExists(bookList', id)
                   /\ \A other \in BookIds \ {id} :
                        bookExists(bookList', other) = bookExists(bookList, other)
                   /\ IF id = ThisBook
                        THEN stored' = NoItem /\ storedOther' = storedOther
                        ELSE storedOther' = NoItem /\ stored' = stored
              ELSE UNCHANGED <<bookList, stored, storedOther>>
     /\ \A id \in BookIds :
          (saveBook(id) \/ getBook(id)) => UNCHANGED <<stored, storedOther>>]_vars

\* C17 witness: the book of the open reader was deleted: it is not listed and
\* has no record, although the reader holds answered words and storage works
C17_Witness ==
  /\ started /\ ~storageFull /\ thrown = "none"
  /\ progress.vocabulary /= EmptyMap
  /\ stored = NoItem
  /\ ~bookExists(bookList, ThisBook)
  /\ storedOther /= NoItem

\* C18 (as claimed): when an answer brings the completion screen, every word of
\* the due-set the session started from has been answered in the session
C18_CompletionCoversDueSet ==
  [][((\E knew \in BOOLEAN : answerWord(knew)) /\ ~complete /\ complete'
        /\ ~storageFull /\ buttonsInCard) =>
       \A j \in 1..Len(sessionDue) : sessionDue[j] \in answeredWords']_vars

\* C19: every entry has lastReview = the time of the word's last answer, and
\* nextReview - lastReview is 3600000 when that answer was incorrect, 172800000
\* when it was correct with correctCount < 3, 604800000 when it was correct
\* with correctCount >= 3
C19_IntervalsExact ==
  \A w \in Words :
    (HasEntry(w) /\ w \in DOMAIN hist) =>
      /\ Entry(w).lastReview = hist[w].at
      /\ Entry(w).nextReview - Entry(w).lastReview =
           (IF hist[w].run = 0 THEN 3600000
            ELSE IF Entry(w).correctCount < 3 THEN 172800000 ELSE 604800000)

\* C19 witness: the three intervals, on answers later than the first instant:
\* one word a week out, the other an hour out or two days out
C19_Witness ==
  /\ ~storageFull /\ buttonsInCard
  /\ \A w \in Words : HasEntry(w) /\ Entry(w).lastReview > StartTime
  /\ \E w \in Words : Entry(w).nextReview = Entry(w).lastReview + WEEK
  /\ \E w \in Words : Entry(w).nextReview = Entry(w).lastReview + HOUR

\* C20: every entry has correctCount >= 0 equal to the number of correct
\* answers in a row since the word's last incorrect answer (or its creation);
\* an entry that is not learned has correctCount <= 2; an entry is learned
\* exactly when the word has at some point had 3 correct answers in a row
C20_CountIsCurrentRun ==
  \A w \in Words :
    (HasEntry(w) /\ w \in DOMAIN hist) =>
      /\ Entry(w).correctCount >= 0
      /\ Entry(w).correctCount = hist[w].run
      /\ Entry(w).learned = FALSE => Entry(w).correctCount <= 2
      /\ Entry(w).learned <=> hist[w].mastered

\* C20 witness: a word mastered, then answered incorrectly, then correctly
\* once (learned with correctCount 1), next to a word two answers into its run
C20_Witness ==
  /\ ~storageFull /\ buttonsInCard
  /\ \E w \in Words :
       HasEntry(w) /\ Entry(w).learned /\ Entry(w).correctCount = 1 /\ hist[w].wrong
  /\ \E w \in Words :
       HasEntry(w) /\ ~Entry(w).learned /\ Entry(w).correctCount = 2

\* C21: right after showNextWord (page load, words tab) or answerWord has
\* selected a card in a session that is not complete, 0 <= currentWord < the
\* length of the due-set computed at that moment, currentWordData is the item
\* of that due-set at index currentWord (so the word shown is due), and the
\* counter's first number does not exceed its second
C21_CursorConsistent ==
  [][(((LoadPage /\ started') \/ switchTab("words")
         \/ (\E knew \in BOOLEAN : answerWord(knew) /\ thrown' = "none"))
        /\ ~complete') =>
       LET due == getWordsToReview(BookVocabulary, progress'.vocabulary, Instants[clock'])
           counter == cardCounter(progress'.vocabulary, Instants[clock'], currentWord')
       IN  /\ 0 <= currentWord' /\ currentWord' < Len(due)
           /\ currentWordData' = due[currentWord' + 1]
           /\ NeedsReview(progress'.vocabulary, currentWordData', Instants[clock'])
           /\ counter[1] <= counter[2]]_vars

\* C21 witness: answerWord has moved the cursor to the second card of a due-set
\* of two, the word just answered still being due
C21_Witness ==
  /\ ~storageFull /\ buttonsInCard /\ thrown = "none"
  /\ ~complete /\ currentWord = 1
  /\ answeredWords = {BookVocabulary[1]}
  /\ currentWordData = BookVocabulary[2]
  /\ cardCounter(progress.vocabulary, now, currentWord) = <<2, 2>>

====
